---------------------------- MODULE Spec2Model ----------------------------
(***************************************************************************)
(* Model of the shipping-rate route of ebay-price-simulator                *)
(* (src/unnamed/part_000: the POST handler of /api/rates, its per-process  *)
(* rate cache, the outbound Ship&Co call and the filter / gap-fill step).  *)
(*                                                                         *)
(* JavaScript strings that the code inspects character by character (the   *)
(* postal code, the cache key, the carrier name) are sequences of          *)
(* one-character strings.  Strings that the code only compares or          *)
(* interpolates (service identifiers, messages) are TLA+ strings.          *)
(* Japanese literals of the source are transliterated; the comment next    *)
(* to each one gives the original.                                         *)
(***************************************************************************)
EXTENDS Integers, Sequences, FiniteSets, TLC

VARIABLES
  rateCache,  \* const rateCache = new Map<string, CacheEntry>()
  now,        \* the wall clock read by Date.now(), in ms
  ticks,      \* how many times the clock has advanced (bounds the run)
  apiKey,     \* process.env.SHIPANDCO_API_KEY
  req,        \* the inbound requests: position, body, lookups, response
  kIn, kOut,  \* buildCacheKey applied to bounded inputs (SpecKey)
  fIn, fOut,  \* the filter / gap-fill step applied to raw quotes (SpecFilter)
  values,     \* page.tsx: const [values, setValues] = useState(defaultValues)
  edits,      \* how many times a number input was edited (bounds the run)
  calc,       \* page.tsx: what the price useMemo returned at the last render
  shipping,         \* page.tsx: useState of the shipping results
  shippingError,    \* page.tsx: useState<string | null>(null)
  shippingLoading,  \* page.tsx: useState(false)
  call        \* page.tsx: the invocation of fetchShippingRates in progress

serverVars == <<rateCache, now, ticks, apiKey, req>>
uiVars == <<values, edits, calc, shipping, shippingError, shippingLoading, call>>
vars == <<rateCache, now, ticks, apiKey, req, kIn, kOut, fIn, fOut,
          values, edits, calc, shipping, shippingError, shippingLoading, call>>

(***************************************************************************)
(* Bounds of the model.                                                    *)
(***************************************************************************)
MaxPostalLen == 3   \* longest postal code fed to buildCacheKey in SpecKey
MaxQuotes == 2      \* longest raw quote list fed to the filter in SpecFilter
MaxReq == 2         \* inbound requests of one run of the server
MaxTicks == 2       \* clock advances of one run of the server

(***************************************************************************)
(* JavaScript strings as sequences of characters.                          *)
(***************************************************************************)
Lower == <<"a","b","c","d","e","f","g","h","i","j","k","l","m",
           "n","o","p","q","r","s","t","u","v","w","x","y","z">>
Upper == <<"A","B","C","D","E","F","G","H","I","J","K","L","M",
           "N","O","P","Q","R","S","T","U","V","W","X","Y","Z">>

UpperOf(c) ==
  IF \E i \in 1..26 : Lower[i] = c
    THEN Upper[CHOOSE i \in 1..26 : Lower[i] = c]
    ELSE c

LowerOf(c) ==
  IF \E i \in 1..26 : Upper[i] = c
    THEN Lower[CHOOSE i \in 1..26 : Upper[i] = c]
    ELSE c

\* String.prototype.toUpperCase / toLowerCase on the modelled alphabet
toUpperCase(s) == [i \in 1..Len(s) |-> UpperOf(s[i])]
toLowerCase(s) == [i \in 1..Len(s) |-> LowerOf(s[i])]

IsSpace(c) == c \in {" ", "\t", "\n"}

RECURSIVE TrimStart(_)
TrimStart(s) ==
  IF s # <<>> /\ IsSpace(Head(s)) THEN TrimStart(Tail(s)) ELSE s

RECURSIVE TrimEnd(_)
TrimEnd(s) ==
  IF s # <<>> /\ IsSpace(s[Len(s)])
    THEN TrimEnd(SubSeq(s, 1, Len(s) - 1))
    ELSE s

\* String.prototype.trim
trim(s) == TrimEnd(TrimStart(s))

\* String.prototype.includes
includes(s, sub) ==
  \E i \in 0..(Len(s) - Len(sub)) : SubSeq(s, i + 1, i + Len(sub)) = sub

Digit == <<"0","1","2","3","4","5","6","7","8","9">>

\* String(n) for a non-negative integer n
RECURSIVE NumberToString(_)
NumberToString(n) ==
  IF n < 10 THEN <<Digit[n + 1]>>
  ELSE NumberToString(n \div 10) \o <<Digit[(n % 10) + 1]>>

\* Array.prototype.join on an array of strings
RECURSIVE join(_, _)
join(parts, sep) ==
  IF parts = <<>> THEN <<>>
  ELSE IF Len(parts) = 1 THEN parts[1]
  ELSE parts[1] \o sep \o join(Tail(parts), sep)

\* the characters of a sequence-string as one TLA+ string
RECURSIVE Text(_)
Text(s) == IF s = <<>> THEN "" ELSE Head(s) \o Text(Tail(s))

US == <<"U","S">>
GB == <<"G","B">>
Countries == {US, GB}

(***************************************************************************)
(* buildCacheKey (lines 31-47).                                            *)
(***************************************************************************)
buildCacheKeyNoUpper(destination, weight, width, height, depth, postal) ==
  join(<<destination, NumberToString(weight), NumberToString(width),
         NumberToString(height), NumberToString(depth), trim(postal)>>,
       <<":">>)

\* a bug: the depth is left out of the key
buildCacheKeyNoDepth(destination, weight, width, height, depth, postal) ==
  join(<<destination, NumberToString(weight), NumberToString(width),
         NumberToString(height), toUpperCase(trim(postal))>>,
       <<":">>)

buildCacheKey(destination, weight, width, height, depth, postal) ==
  join(<<destination, NumberToString(weight), NumberToString(width),
         NumberToString(height), NumberToString(depth),
         toUpperCase(trim(postal))>>,
       <<":">>)

(***************************************************************************)
(* SpecKey: buildCacheKey applied to two postal codes with the same        *)
(* destination and dimensions.                                             *)
(***************************************************************************)
PostalAlphabet == {"a", "A", "1", " "}

RECURSIVE StringsUpTo(_, _)
StringsUpTo(alphabet, n) ==
  IF n = 0 THEN {<<>>}
  ELSE LET shorter == StringsUpTo(alphabet, n - 1)
       IN shorter \cup {Append(s, c) : s \in shorter, c \in alphabet}

Postals == StringsUpTo(PostalAlphabet, MaxPostalLen)

\* weight, width, height, depth: one-digit and two-digit numbers
KeyDims == {<<1, 1, 1, 1>>, <<12, 3, 4, 5>>}

NoValue == <<>>

\* the page is not open: the specifications of the server stay here
PageAbsent ==
  /\ values = NoValue
  /\ edits = 0
  /\ calc = NoValue
  /\ shipping = NoValue
  /\ shippingError = NoValue
  /\ shippingLoading = FALSE
  /\ call = NoValue

\* the server before any request: the pure-function specifications stay here
ServerIdle ==
  /\ rateCache = <<>>
  /\ now = 0
  /\ ticks = 0
  /\ apiKey = [t |-> "string", v |-> "tok"]
  /\ req = <<>>
  /\ PageAbsent

InitKey ==
  /\ ServerIdle
  /\ kIn \in [destination : Countries, dims : KeyDims,
              postalA : Postals, postalB : Postals]
  /\ kOut = NoValue
  /\ fIn = NoValue
  /\ fOut = NoValue

BuildKeys ==
  /\ kIn # NoValue
  /\ kOut = NoValue
  /\ kOut' = [a |-> buildCacheKey(kIn.destination, kIn.dims[1], kIn.dims[2],
                                  kIn.dims[3], kIn.dims[4], kIn.postalA),
              b |-> buildCacheKey(kIn.destination, kIn.dims[1], kIn.dims[2],
                                  kIn.dims[3], kIn.dims[4], kIn.postalB)]
  /\ UNCHANGED <<serverVars, kIn, fIn, fOut, uiVars>>

NextKey == BuildKeys

SpecKey == InitKey /\ [][NextKey]_vars

(***************************************************************************)
(* C4.                                                                     *)
(***************************************************************************)
SameLetter(a, b) ==
  a = b \/ \E i \in 1..26 : {a, b} = {Lower[i], Upper[i]}

AllSpace(s) == \A i \in 1..Len(s) : IsSpace(s[i])

\* p and q are the same characters up to letter case once some leading and
\* some trailing whitespace is taken off each
DifferOnlyInCaseOrOuterSpace(p, q) ==
  \E i \in 0..Len(p) :
    /\ AllSpace(SubSeq(p, 1, i))
    /\ \E j \in i..Len(p) :
         /\ AllSpace(SubSeq(p, j + 1, Len(p)))
         /\ \E k \in 0..Len(q) :
              LET l == k + (j - i)
              IN /\ l <= Len(q)
                 /\ AllSpace(SubSeq(q, 1, k))
                 /\ AllSpace(SubSeq(q, l + 1, Len(q)))
                 /\ \A n \in 1..(j - i) : SameLetter(p[i + n], q[k + n])

\* C4: for every destination and dimensions, two postal codes that differ
\* only in letter case or in leading/trailing whitespace get the same key.
C4_KeyIgnoresCaseAndOuterSpace ==
  (kOut # NoValue /\ DifferOnlyInCaseOrOuterSpace(kIn.postalA, kIn.postalB))
    => kOut.a = kOut.b

\* two postal codes that differ in case and in surrounding whitespace, keyed
C4_Witness ==
  /\ kOut # NoValue
  /\ kIn.postalA = <<" ", "a", "1">>
  /\ kIn.postalB = <<"A", "1", " ">>
  /\ kOut.a = kOut.b


(***************************************************************************)
(* JSON values as the code sees them: tagged records.  An object's value   *)
(* is a function from its property names to values; a property that is     *)
(* not in the domain reads as undefined.                                   *)
(***************************************************************************)
Undefined == [t |-> "undefined"]
Null == [t |-> "null"]
NaN == [t |-> "NaN"]
Infinity == [t |-> "Infinity"]
Num(n) == [t |-> "number", v |-> n]
Str(s) == [t |-> "string", v |-> s]
Bool(b) == [t |-> "boolean", v |-> b]
Arr(items) == [t |-> "array", v |-> items]
Obj(props) == [t |-> "object", v |-> props]

NoProps == [n \in {} |-> Undefined]
Prop(name, value) == IF value = Undefined THEN NoProps ELSE name :> value

\* o?.name
Get(o, name) ==
  IF o.t = "object" /\ name \in DOMAIN o.v THEN o.v[name] ELSE Undefined

\* x ?? d
Nullish(x, d) == IF x.t \in {"undefined", "null"} THEN d ELSE x

\* the truthiness of x (if (x), !x, x ? a : b, x || d)
Truthy(x) ==
  CASE x.t \in {"undefined", "null", "NaN"} -> FALSE
    [] x.t = "number" -> x.v # 0
    [] x.t = "string" -> Len(x.v) # 0
    [] x.t = "boolean" -> x.v
    [] OTHER -> TRUE

\* String(x) where the result is inspected character by character
StringOf(x) ==
  CASE x.t = "string" -> x.v
    [] x.t = "number" -> NumberToString(x.v)
    [] x.t = "undefined" -> <<"u","n","d","e","f","i","n","e","d">>
    [] x.t = "null" -> <<"n","u","l","l">>
    [] x.t = "boolean" -> IF x.v THEN <<"t","r","u","e">>
                                 ELSE <<"f","a","l","s","e">>
    [] x.t = "NaN" -> <<"N","a","N">>
    [] OTHER -> <<"[","o","b","j","e","c","t","]">>

\* String(x) where the result is only compared or interpolated
StringText(x) ==
  CASE x.t = "string" -> x.v
    [] x.t = "number" -> Text(NumberToString(x.v))
    [] x.t = "undefined" -> "undefined"
    [] x.t = "null" -> "null"
    [] x.t = "boolean" -> IF x.v THEN "true" ELSE "false"
    [] x.t = "NaN" -> "NaN"
    [] OTHER -> "[object Object]"

IsDigit(c) == \E i \in 1..10 : Digit[i] = c

RECURSIVE DigitsValue(_)
DigitsValue(s) ==
  IF s = <<>> THEN 0
  ELSE 10 * DigitsValue(SubSeq(s, 1, Len(s) - 1))
         + (CHOOSE i \in 0..9 : Digit[i + 1] = s[Len(s)])

\* Number(x): a string is trimmed, the empty string is 0, decimal digits are
\* their value and anything else is NaN
Number(x) ==
  CASE x.t = "number" -> x
    [] x.t \in {"NaN", "Infinity"} -> x
    [] x.t = "undefined" -> NaN
    [] x.t = "null" -> Num(0)
    [] x.t = "boolean" -> IF x.v THEN Num(1) ELSE Num(0)
    [] x.t = "string" ->
         LET s == trim(x.v)
         IN IF \A i \in 1..Len(s) : IsDigit(s[i])
              THEN Num(DigitsValue(s)) ELSE NaN
    [] x.t = "array" -> IF x.v = <<>> THEN Num(0) ELSE NaN
    [] OTHER -> NaN

\* Number.isFinite
isFinite(x) == x.t = "number"

\* JSON.stringify of an error entry: its message and code properties
JSONstringify(x) ==
  CASE x.t = "string" -> "\"" \o x.v \o "\""
    [] x.t = "null" -> "null"
    [] x.t = "object" ->
         LET m == Get(x, "message")
             c == Get(x, "code")
         IN "{"
            \o (IF m.t = "string" THEN "\"message\":\"" \o m.v \o "\"" ELSE "")
            \o (IF m.t = "string" /\ c.t = "string" THEN "," ELSE "")
            \o (IF c.t = "string" THEN "\"code\":\"" \o c.v \o "\"" ELSE "")
            \o "}"
    [] OTHER -> "null"

(***************************************************************************)
(* The filter and gap-fill step of getRatesForDestination (lines 166-216). *)
(***************************************************************************)
JAPAN_POST_SERVICES ==
  <<"japanpost_ems", "japanpost_epacket_light", "japanpost_smallpacket_air">>

InSeq(x, s) == \E i \in 1..Len(s) : s[i] = x

dhl == <<"d","h","l">>
fedex == <<"f","e","d","e","x">>
japan_post == <<"j","a","p","a","n"," ","p","o","s","t">>
japanpost == <<"j","a","p","a","n","p","o","s","t">>
japan == <<"j","a","p","a","n">>

\* lines 166-170
RawRates(data) ==
  IF data.t = "array" THEN data.v
  ELSE IF Get(data, "rates").t = "array" THEN Get(data, "rates").v
  ELSE <<>>

\* a bug: a Japan Post quote is accepted whatever its service
IsAllowedAnyService(rate) ==
  LET carrier == toLowerCase(StringOf(Nullish(Get(rate, "carrier"), Str(<<>>))))
  IN \/ includes(carrier, dhl)
     \/ includes(carrier, fedex)
     \/ includes(carrier, japan_post)
     \/ includes(carrier, japanpost)

\* the filter callback, lines 172-180
IsAllowed(rate) ==
  LET carrier == toLowerCase(StringOf(Nullish(Get(rate, "carrier"), Str(<<>>))))
  IN IF includes(carrier, dhl) THEN TRUE
     ELSE IF includes(carrier, fedex) THEN TRUE
     ELSE IF includes(carrier, japan_post) \/ includes(carrier, japanpost)
       THEN InSeq(StringText(Get(rate, "service")), JAPAN_POST_SERVICES)
     ELSE FALSE

\* the map callback, lines 182-189
RateSummary(rate) ==
  [carrier |-> StringOf(Nullish(Get(rate, "carrier"), Str(<<>>))),
   service |-> StringText(Nullish(Get(rate, "service"), Str(""))),
   price |-> Number(Nullish(Get(rate, "price"), Num(0))),
   currency |-> StringText(Nullish(Get(rate, "currency"), Str(""))),
   estimated_delivery_dates |-> Nullish(Get(rate, "estimated_delivery_dates"), Null),
   carrier_id |-> Nullish(Get(rate, "carrier_id"), Null)]

RECURSIVE Flatten(_)
Flatten(ss) == IF ss = <<>> THEN <<>> ELSE Head(ss) \o Flatten(Tail(ss))

\* lines 195-197
EntryMessage(entry) ==
  IF Truthy(Get(entry, "message"))
    THEN StringText(Get(entry, "message"))
    ELSE JSONstringify(entry)

HasErrors(rate) == Get(rate, "errors").t = "array"
RateErrors(rate) ==
  LET entries == Get(rate, "errors").v
  IN [i \in 1..Len(entries) |-> EntryMessage(entries[i])]

\* lines 192-198
ApiErrors(rawRates) ==
  LET withErrors == SelectSeq(rawRates, HasErrors)
  IN Flatten([i \in 1..Len(withErrors) |-> RateErrors(withErrors[i])])

\* lines 206-211; the source's labels are "EMS", "eパケットライト" and
\* "小型包装物（航空）"
ServiceLabel(service) ==
  IF service = "japanpost_ems" THEN "EMS"
  ELSE IF service = "japanpost_epacket_light" THEN "ePacket Light"
  ELSE "Small Packet (Air)"

\* line 212: `${label}：非対応/取得失敗`
MissingMessage(service) == ServiceLabel(service) \o ": unsupported / fetch failed"

IsJapanRate(rate) == includes(toLowerCase(rate.carrier), japan)

\* a bug: a service of any accepted quote counts as present
MissingServiceErrorsAnyCarrier(rates) ==
  LET present == [i \in 1..Len(rates) |-> rates[i].service]
      Missing(service) == ~InSeq(service, present)
      missing == SelectSeq(JAPAN_POST_SERVICES, Missing)
  IN [i \in 1..Len(missing) |-> MissingMessage(missing[i])]

\* lines 200-214
MissingServiceErrors(rates) ==
  LET japanRates == SelectSeq(rates, IsJapanRate)
      japanPostServices == [i \in 1..Len(japanRates) |-> japanRates[i].service]
      Missing(service) == ~InSeq(service, japanPostServices)
      missing == SelectSeq(JAPAN_POST_SERVICES, Missing)
  IN [i \in 1..Len(missing) |-> MissingMessage(missing[i])]

\* a bug: the gap-fill messages are pushed before the API's messages
ProcessRatesGapFillFirst(data) ==
  LET rawRates == RawRates(data)
      filteredRates == SelectSeq(rawRates, IsAllowed)
      rates == [i \in 1..Len(filteredRates) |-> RateSummary(filteredRates[i])]
  IN [rates |-> rates,
      errors |-> MissingServiceErrors(rates) \o ApiErrors(rawRates)]

\* lines 166-216: the RatesResult of a successful API response
ProcessRates(data) ==
  LET rawRates == RawRates(data)
      filteredRates == SelectSeq(rawRates, IsAllowed)
      rates == [i \in 1..Len(filteredRates) |-> RateSummary(filteredRates[i])]
  IN [rates |-> rates,
      errors |-> ApiErrors(rawRates) \o MissingServiceErrors(rates)]

(***************************************************************************)
(* SpecFilter: the filter and gap-fill step applied to bounded raw data.   *)
(***************************************************************************)
CarrierNames ==
  {<<"D","H","L">>, <<"F","e","d","E","x">>,
   <<"J","a","p","a","n"," ","P","o","s","t">>,
   <<"J","A","P","A","N","P","O","S","T">>,
   <<"U","P","S">>, <<"D","H","L"," ","J","a","p","a","n">>}

ServiceNames ==
  {"japanpost_ems", "japanpost_epacket_light", "japanpost_smallpacket_air",
   "express"}

Quote(carrier, service, errors) ==
  Obj(Prop("carrier", carrier) @@ Prop("service", service)
      @@ Prop("price", Num(1000)) @@ Prop("currency", Str("JPY"))
      @@ Prop("errors", errors))

QuoteErrors ==
  Arr(<<Obj(Prop("message", Str("m1"))), Obj(Prop("code", Str("E2")))>>)

\* a second error list: the message of its second entry is empty
OtherQuoteErrors ==
  Arr(<<Obj(Prop("message", Str("m3"))), Obj(Prop("message", Str("")))>>)

RawQuotes ==
  {Quote(c, s, Undefined) :
     c \in {Str(n) : n \in CarrierNames} \cup {Undefined},
     s \in {Str(n) : n \in ServiceNames} \cup {Undefined}}
  \cup {Quote(Str(<<"U","P","S">>), Str("express"), QuoteErrors),
        Quote(Str(<<"J","a","p","a","n"," ","P","o","s","t">>),
              Str("japanpost_ems"), QuoteErrors),
        Quote(Str(<<"D","H","L">>), Str("express"), OtherQuoteErrors),
        Null}

\* the bodies of a 2xx response that hold no quote list
OtherData == {Null, Str("ok"), Obj(Prop("rates", Str("none")))}

\* the body of a 2xx response: a bare array of up to MaxQuotes quotes, an
\* object wrapping it in "rates", or a body that is neither
InitFilter ==
  /\ ServerIdle
  /\ kIn = NoValue
  /\ kOut = NoValue
  /\ \/ \E n \in 0..MaxQuotes : \E l \in [1..n -> RawQuotes] :
          fIn \in {Arr(l), Obj(Prop("rates", Arr(l)))}
     \/ fIn \in OtherData
  /\ fOut = NoValue

FilterAndAnnotate ==
  /\ fIn # NoValue
  /\ fOut = NoValue
  /\ fOut' = ProcessRates(fIn)
  /\ UNCHANGED <<serverVars, kIn, kOut, fIn, uiVars>>

NextFilter == FilterAndAnnotate

SpecFilter == InitFilter /\ [][NextFilter]_vars

(***************************************************************************)
(* C5.                                                                     *)
(***************************************************************************)
CarrierText(q) ==
  IF Get(q, "carrier").t = "string" THEN Get(q, "carrier").v ELSE <<>>

ServiceTextOf(q) ==
  IF Get(q, "service").t = "string" THEN Get(q, "service").v ELSE ""

AllowListed(q) ==
  LET c == toLowerCase(CarrierText(q))
  IN \/ includes(c, dhl)
     \/ includes(c, fedex)
     \/ /\ includes(c, japan_post) \/ includes(c, japanpost)
        /\ ServiceTextOf(q) \in {"japanpost_ems", "japanpost_epacket_light",
                                 "japanpost_smallpacket_air"}

NthOf(S, n) == CHOOSE i \in S : Cardinality({j \in S : j < i}) = n - 1

\* C5: the rates of the result are exactly the raw quotes on the allow-list
\* (DHL and FedEx with any service, Japan Post with one of the three
\* services), in their original order.
C5_RatesAreTheAllowListedQuotes ==
  fOut # NoValue =>
    LET raw == RawRates(fIn)
        kept == {i \in 1..Len(raw) : AllowListed(raw[i])}
    IN /\ Len(fOut.rates) = Cardinality(kept)
       /\ \A n \in 1..Len(fOut.rates) :
            LET q == raw[NthOf(kept, n)]
            IN /\ fOut.rates[n].carrier = CarrierText(q)
               /\ fOut.rates[n].service = ServiceTextOf(q)
               /\ fOut.rates[n].price = Get(q, "price")

\* a Japan Post quote with another service is dropped, the DHL quote after it
\* is kept
C5_Witness ==
  /\ fOut # NoValue
  /\ fIn.t = "array"
  /\ Len(fIn.v) = 2
  /\ CarrierText(fIn.v[1]) = <<"J","a","p","a","n"," ","P","o","s","t">>
  /\ ServiceTextOf(fIn.v[1]) = "express"
  /\ CarrierText(fIn.v[2]) = <<"D","H","L">>
  /\ Len(fOut.rates) = 1
  /\ fOut.rates[1].carrier = <<"D","H","L">>

(***************************************************************************)
(* C6.                                                                     *)
(***************************************************************************)
Count(x, s) == Cardinality({i \in 1..Len(s) : s[i] = x})

RequiredServices ==
  {"japanpost_ems", "japanpost_epacket_light", "japanpost_smallpacket_air"}

SynthesizedFor(code) ==
  CASE code = "japanpost_ems" -> "EMS: unsupported / fetch failed"
    [] code = "japanpost_epacket_light" ->
         "ePacket Light: unsupported / fetch failed"
    [] code = "japanpost_smallpacket_air" ->
         "Small Packet (Air): unsupported / fetch failed"

\* C6 as claimed: one synthesized message for a required service code that
\* no accepted quote carries, none for a code that some accepted quote carries.
C6_Original ==
  fOut # NoValue =>
    \A code \in RequiredServices :
      Count(SynthesizedFor(code), fOut.errors) =
        IF \E i \in 1..Len(fOut.rates) : fOut.rates[i].service = code
          THEN 0 ELSE 1

\* C6 as amended: one synthesized message for a required service code that no
\* accepted quote with "japan" in its lower-cased carrier name carries, none
\* for a code that some such quote carries.
C6_GapFillPerJapanCarrierService ==
  fOut # NoValue =>
    \A code \in RequiredServices :
      Count(SynthesizedFor(code), fOut.errors) =
        IF \E i \in 1..Len(fOut.rates) :
             /\ fOut.rates[i].service = code
             /\ includes(toLowerCase(fOut.rates[i].carrier), japan)
          THEN 0 ELSE 1

\* EMS is quoted by Japan Post and the other two services are not
C6_Witness ==
  /\ fOut # NoValue
  /\ Len(fOut.rates) = 1
  /\ fOut.rates[1].carrier = <<"J","a","p","a","n"," ","P","o","s","t">>
  /\ fOut.rates[1].service = "japanpost_ems"
  /\ fOut.errors = <<"ePacket Light: unsupported / fetch failed",
                     "Small Packet (Air): unsupported / fetch failed">>

(***************************************************************************)
(* The server: POST (lines 221-273), getRatesForDestination (98-219),      *)
(* fetchRates (57-96), pruneCache (49-55).                                 *)
(*                                                                         *)
(* JavaScript runs a handler without interruption up to its next await.    *)
(* POST, once the inbound body is read, validates it and runs both         *)
(* getRatesForDestination calls up to their first await in one step; the   *)
(* rest of a lookup runs in one step when the body of the outbound         *)
(* response has been read; POST resumes when Promise.all settles.          *)
(***************************************************************************)
CACHE_TTL_MS == 60000

Reqs == 1..MaxReq
Dest == {"US", "GB"}
CountryChars(d) == IF d = "US" THEN US ELSE GB

DEFAULT_US_ZIP == <<"1","0","0","0","1">>
DEFAULT_UK_POSTCODE == <<"S","W","1","A"," ","1","A","A">>

\* "SHIPANDCO_API_KEY が設定されていません。"
KeyMissingMessage == "SHIPANDCO_API_KEY is not set."
\* "Ship&Co API の呼び出しに失敗しました。"
GenericFailureMessage == "Ship&Co API call failed."
\* "リクエストが不正です。"
BadRequestMessage == "The request is invalid."
\* "重量・サイズの入力が不正です。"
BadNumbersMessage == "The weight or size input is invalid."

Unparseable == [t |-> "unparseable"]

\* x.json().catch(() => null)
JsonOrNull(body) == IF body.t = "unparseable" THEN Null ELSE body

NoResult == [rates |-> <<>>, errors |-> <<"(pending)">>]
NoResponse == [kind |-> "none"]
NoLookup ==
  [st |-> "none", key |-> <<>>, startedAt |-> 0,
   requestBody |-> <<>>, called |-> FALSE, how |-> "none",
   response |-> NoResponse, result |-> NoResult, wroteAt |-> 0]

IdleRequest ==
  [pc |-> "idle", body |-> Undefined, status |-> 0, json |-> Undefined,
   lk |-> [d \in Dest |-> NoLookup]]

\* a bug: an entry that expires at the very time of the prune is kept
pruneCacheKeepsBoundary(cache, t) ==
  [k \in {x \in DOMAIN cache : cache[x].expiresAt >= t} |-> cache[k]]

\* pruneCache, lines 49-55
pruneCache(cache, t) ==
  [k \in {x \in DOMAIN cache : cache[x].expiresAt > t} |-> cache[k]]

\* rateCache.set
CacheSet(cache, key, entry) ==
  [k \in DOMAIN cache \cup {key} |-> IF k = key THEN entry ELSE cache[k]]

\* a bug: only an undefined key counts as missing, an empty one is sent
ApiKeyMissingOnlyUndefined(key) == key.t = "undefined"

\* line 59: !apiKey
ApiKeyMissing(key) == ~Truthy(key)

\* line 161: `Ship&Co API 失敗 (${country}): ${status} ${message}`
FailureMessage(country, status, message) ==
  "Ship&Co API failed (" \o country \o "): "
    \o Text(NumberToString(status)) \o " " \o StringText(message)

\* lines 159-164
FailureResult(country, status, message) ==
  [rates |-> <<>>, errors |-> <<FailureMessage(country, status, message)>>]

\* lines 115-156: the parts of the outbound payload that vary
RequestBody(d, postal, dims) ==
  [country |-> d, zip |-> postal, weight |-> dims[1], width |-> dims[2],
   height |-> dims[3], depth |-> dims[4]]

\* getRatesForDestination up to its first await (lines 106-158, and
\* fetchRates lines 58-75): the cache after the prune and the lookup
StartLookup(cache, d, postal, dims, t) ==
  LET key == buildCacheKey(CountryChars(d), dims[1], dims[2], dims[3],
                           dims[4], postal)
      pruned == pruneCache(cache, t)
      base == [NoLookup EXCEPT !.key = key, !.startedAt = t]
  IN IF key \in DOMAIN pruned /\ pruned[key].expiresAt > t
       THEN [cache |-> pruned,
             lk |-> [base EXCEPT !.st = "resolved", !.how = "hit",
                                 !.result = pruned[key].value]]
     ELSE IF ApiKeyMissing(apiKey)
       THEN [cache |-> pruned,
             lk |-> [base EXCEPT !.st = "resolved", !.how = "nokey",
                                 !.requestBody = RequestBody(d, postal, dims),
                                 !.result = FailureResult(d, 500,
                                              Str(KeyMissingMessage))]]
     ELSE [cache |-> pruned,
           lk |-> [base EXCEPT !.st = "fetching", !.how = "pending",
                               !.requestBody = RequestBody(d, postal, dims),
                               !.called = TRUE]]

\* a bug: a blank postal code is kept instead of the default
PostalOrDefaultKeepBlank(value, default) ==
  trim(StringOf(Nullish(value, Str(default))))

\* lines 247-248: String(value ?? default).trim() || default
PostalOrDefault(value, default) ==
  LET s == trim(StringOf(Nullish(value, Str(default))))
  IN IF Truthy(Str(s)) THEN s ELSE default

RejectWith(r, body, message) ==
  /\ req' = [req EXCEPT ![r] = [@ EXCEPT !.pc = "responded", !.body = body,
                                         !.status = 400,
                                         !.json = Obj(Prop("error", Str(message)))]]
  /\ UNCHANGED <<rateCache, now, ticks, apiKey>>

\* POST from its start to the await of Promise.all (lines 221-267)
POST(r, inbound) ==
  /\ req[r].pc = "idle"
  /\ \A q \in 1..(r - 1) : req[q].pc # "idle"
  /\ LET body == JsonOrNull(inbound)
         weight == Number(Get(body, "weight"))
         width == Number(Get(body, "width"))
         height == Number(Get(body, "height"))
         depth == Number(Get(body, "depth"))
     IN IF ~Truthy(body)
          THEN RejectWith(r, inbound, BadRequestMessage)
        ELSE IF ~isFinite(weight) \/ ~isFinite(width)
                  \/ ~isFinite(height) \/ ~isFinite(depth)
          THEN RejectWith(r, inbound, BadNumbersMessage)
        ELSE
          LET usZip == PostalOrDefault(Get(body, "usZip"), DEFAULT_US_ZIP)
              ukPostcode == PostalOrDefault(Get(body, "ukPostcode"),
                                            DEFAULT_UK_POSTCODE)
              dims == <<weight.v, width.v, height.v, depth.v>>
              us == StartLookup(rateCache, "US", usZip, dims, now)
              gb == StartLookup(us.cache, "GB", ukPostcode, dims, now)
          IN /\ req' = [req EXCEPT ![r] =
                          [@ EXCEPT !.pc = "pending", !.body = inbound,
                                    !.lk = [d \in Dest |->
                                              IF d = "US" THEN us.lk
                                                          ELSE gb.lk]]]
             /\ rateCache' = gb.cache
             /\ UNCHANGED <<now, ticks, apiKey>>
  /\ UNCHANGED <<kIn, kOut, fIn, fOut, uiVars>>

\* response.ok
ResponseOk(status) == status \in 200..299

\* fetchRates after the fetch, lines 77-96, and the branch of lines 159-164
\* that follows a failure: the lookup's result when the API call failed
HttpFailureResult(d, response) ==
  LET data == JsonOrNull(response.body)
      message == Nullish(Get(data, "message"),
                         Nullish(Get(data, "error"),
                                 Str(GenericFailureMessage)))
  IN FailureResult(d, response.status, message)

\* the outbound fetch rejects (no connection): fetchRates, the lookup and
\* Promise.all reject in turn
FetchRejects(r, d) ==
  /\ req[r].lk[d].st = "fetching"
  /\ req' = [req EXCEPT ![r].lk[d] =
               [@ EXCEPT !.st = "rejected", !.how = "network_error",
                         !.response = [kind |-> "network_error"]]]
  /\ UNCHANGED <<rateCache, now, ticks, apiKey, kIn, kOut, fIn, fOut, uiVars>>

\* a bug: a failed call is attempted again
FetchFailsAndRetries(r, d, response) ==
  /\ req[r].lk[d].st = "fetching"
  /\ ~ResponseOk(response.status)
  /\ req' = [req EXCEPT ![r].lk[d] =
               [@ EXCEPT !.how = "http_error", !.response = response]]
  /\ UNCHANGED <<rateCache, now, ticks, apiKey, kIn, kOut, fIn, fOut, uiVars>>

\* a bug: the result of a failed call is cached like a successful one
FetchFailsCachingFailure(r, d, response) ==
  /\ req[r].lk[d].st = "fetching"
  /\ ~ResponseOk(response.status)
  /\ rateCache' = CacheSet(rateCache, req[r].lk[d].key,
                           [expiresAt |-> req[r].lk[d].startedAt + CACHE_TTL_MS,
                            value |-> HttpFailureResult(d, response)])
  /\ req' = [req EXCEPT ![r].lk[d] =
               [@ EXCEPT !.st = "resolved", !.how = "http_error",
                         !.response = response,
                         !.result = HttpFailureResult(d, response)]]
  /\ UNCHANGED <<now, ticks, apiKey, kIn, kOut, fIn, fOut, uiVars>>

\* the outbound response arrives with a non-2xx status (lines 77-92, 159-164)
FetchFails(r, d, response) ==
  /\ req[r].lk[d].st = "fetching"
  /\ ~ResponseOk(response.status)
  /\ req' = [req EXCEPT ![r].lk[d] =
               [@ EXCEPT !.st = "resolved", !.how = "http_error",
                         !.response = response,
                         !.result = HttpFailureResult(d, response)]]
  /\ UNCHANGED <<rateCache, now, ticks, apiKey, kIn, kOut, fIn, fOut, uiVars>>

\* the outbound response arrives with a 2xx status (lines 77-78, 94-95,
\* 166-218): the result is computed and cached
FetchSucceeds(r, d, response) ==
  /\ req[r].lk[d].st = "fetching"
  /\ ResponseOk(response.status)
  /\ LET lookup == req[r].lk[d]
         result == ProcessRates(JsonOrNull(response.body))
     IN /\ rateCache' = CacheSet(rateCache, lookup.key,
                                 [expiresAt |-> lookup.startedAt + CACHE_TTL_MS,
                                  value |-> result])
        /\ req' = [req EXCEPT ![r].lk[d] =
                     [@ EXCEPT !.st = "resolved", !.how = "ok",
                               !.response = response, !.result = result,
                               !.wroteAt = now]]
  /\ UNCHANGED <<now, ticks, apiKey, kIn, kOut, fIn, fOut, uiVars>>

\* a bug: the errors of the US lookup leak into the UK result
PostResponseSharedErrors(usResult, ukResult) ==
  [US |-> usResult,
   UK |-> [rates |-> ukResult.rates,
           errors |-> IF usResult.rates = <<>>
                        THEN usResult.errors \o ukResult.errors
                        ELSE ukResult.errors]]

\* lines 269-272
PostResponse(usResult, ukResult) == [US |-> usResult, UK |-> ukResult]

\* Promise.all resolves: both lookups have resolved (lines 250, 269-272)
Respond(r) ==
  /\ req[r].pc = "pending"
  /\ \A d \in Dest : req[r].lk[d].st = "resolved"
  /\ req' = [req EXCEPT ![r] =
               [@ EXCEPT !.pc = "responded", !.status = 200,
                         !.json = PostResponse(req[r].lk["US"].result,
                                               req[r].lk["GB"].result)]]
  /\ UNCHANGED <<rateCache, now, ticks, apiKey, kIn, kOut, fIn, fOut, uiVars>>

\* Promise.all rejects as soon as one lookup has rejected: POST throws, and
\* the framework answers 500
Throw(r) ==
  /\ req[r].pc = "pending"
  /\ \E d \in Dest : req[r].lk[d].st = "rejected"
  /\ req' = [req EXCEPT ![r] = [@ EXCEPT !.pc = "threw", !.status = 500]]
  /\ UNCHANGED <<rateCache, now, ticks, apiKey, kIn, kOut, fIn, fOut, uiVars>>

\* the clock advances: by a millisecond, or by a millisecond less than a TTL
TickSteps == {1, CACHE_TTL_MS - 1}

Tick(step) ==
  /\ ticks < MaxTicks
  /\ now' = now + step
  /\ ticks' = ticks + 1
  /\ UNCHANGED <<rateCache, apiKey, req, kIn, kOut, fIn, fOut, uiVars>>

(***************************************************************************)
(* The environment of the server.                                          *)
(***************************************************************************)
ApiKeys == {Undefined, Str(""), Str("tok")}

JapanPostEms ==
  Quote(Str(<<"J","a","p","a","n"," ","P","o","s","t">>),
        Str("japanpost_ems"), Undefined)
DhlExpress == Quote(Str(<<"D","H","L">>), Str("express"), Undefined)

HttpResponse(status, body) == [kind |-> "http", status |-> status, body |-> body]

\* what the rates API may answer to the concurrent server
ServerResponses ==
  {HttpResponse(200, Arr(<<JapanPostEms>>)),
   HttpResponse(200, Unparseable),
   HttpResponse(500, Obj(Prop("message", Str("boom"))))}

\* what the rates API may answer
ApiResponses ==
  {HttpResponse(200, Arr(<<JapanPostEms>>)),
   HttpResponse(200, Obj(Prop("rates", Arr(<<DhlExpress>>)))),
   HttpResponse(200, Unparseable),
   HttpResponse(500, Obj(Prop("message", Str("boom")))),
   HttpResponse(401, Obj(Prop("error", Str("unauthorized")))),
   HttpResponse(502, Unparseable)}

Body(weight, width, height, depth, usZip, ukPostcode) ==
  Obj(Prop("weight", weight) @@ Prop("width", width)
      @@ Prop("height", height) @@ Prop("depth", depth)
      @@ Prop("usZip", usZip) @@ Prop("ukPostcode", ukPostcode))

\* the inbound bodies of the concurrent server
ServerBodies ==
  {Unparseable,
   Body(Num(1), Num(2), Num(3), Num(4), Undefined, Undefined),
   Body(Num(1), Num(2), Num(3), Num(4), Str(<<"a","1"," ">>),
        Str(<<"s","w","1","a"," ","1","a","a"," ">>))}

Init ==
  /\ rateCache = <<>>
  /\ now = 0
  /\ ticks = 0
  /\ apiKey \in ApiKeys
  /\ req = [r \in Reqs |-> IdleRequest]
  /\ kIn = NoValue
  /\ kOut = NoValue
  /\ fIn = NoValue
  /\ fOut = NoValue
  /\ PageAbsent

Next ==
  \/ \E r \in Reqs : req[r].pc = "idle" /\ \E b \in ServerBodies : POST(r, b)
  \/ \E r \in Reqs, d \in Dest : FetchRejects(r, d)
  \/ \E r \in Reqs, d \in Dest, a \in ServerResponses : FetchFails(r, d, a)
  \/ \E r \in Reqs, d \in Dest, a \in ServerResponses : FetchSucceeds(r, d, a)
  \/ \E r \in Reqs : Respond(r)
  \/ \E r \in Reqs : Throw(r)
  \/ \E step \in TickSteps : Tick(step)

Spec == Init /\ [][Next]_vars

(***************************************************************************)
(* SpecPOST: one inbound request, with every shape of body.                *)
(***************************************************************************)
\* what JSON may carry in weight; 1e999 parses to Infinity
WeightValues ==
  {Undefined, Null, Num(1), Str(<<" ","2">>), Str(<<"a">>), Infinity}
SizeValues == {Undefined, Null, Num(1), Str(<<"a">>)}
PostalValues ==
  {Undefined, Null, Str(<<>>), Str(<<" ">>), Str(<<" ","a","1"," ">>), Num(7)}

PostBodies ==
  {Body(w, x, h, d, z, p) :
     w \in WeightValues, x \in SizeValues, h \in SizeValues, d \in SizeValues,
     z \in PostalValues, p \in PostalValues}
  \cup {Unparseable, Null, Num(0), Str(<<"x">>), Arr(<<>>)}

NextPOST ==
  \/ req[1].pc = "idle" /\ \E b \in PostBodies : POST(1, b)
  \/ \E d \in Dest : FetchRejects(1, d)
  \/ \E d \in Dest, a \in ApiResponses : FetchFails(1, d, a)
  \/ \E d \in Dest, a \in ApiResponses : FetchSucceeds(1, d, a)
  \/ Respond(1)
  \/ Throw(1)

SpecPOST == Init /\ [][NextPOST]_vars

(***************************************************************************)
(* Claims about the server.                                                *)
(***************************************************************************)
NumberFields == {"weight", "width", "height", "depth"}

Finished(r) == req[r].pc \in {"responded", "threw"}

\* the validation of lines 222-245 lets the body through
PassesValidation(inbound) ==
  /\ Truthy(JsonOrNull(inbound))
  /\ \A f \in NumberFields : isFinite(Number(Get(JsonOrNull(inbound), f)))

IsRatesResult(x) == DOMAIN x = {"rates", "errors"}

\* the response entry of a destination: US for US, UK for GB
JsonOf(r, d) == IF d = "US" THEN req[r].json.US ELSE req[r].json.UK

\* C1 as claimed: a request whose body passes validation is answered 200
\* with a US and a UK result, whatever happens to the two outbound calls.
C1_Original ==
  \A r \in Reqs :
    (Finished(r) /\ PassesValidation(req[r].body)) =>
      /\ req[r].status = 200
      /\ IsRatesResult(req[r].json.US)
      /\ IsRatesResult(req[r].json.UK)

\* C2: when one destination's call fails with a non-2xx status and the
\* other's succeeds, the failed one has no rates and one error, and the other
\* one's result is the result of its own response alone.
C2_FailureIsolated ==
  \A r \in Reqs : \A d \in Dest : \A o \in Dest \ {d} :
    (/\ req[r].pc = "responded"
     /\ req[r].lk[d].how = "http_error"
     /\ req[r].lk[o].how = "ok") =>
      /\ JsonOf(r, d).rates = <<>>
      /\ Len(JsonOf(r, d).errors) = 1
      /\ JsonOf(r, o) = ProcessRates(JsonOrNull(req[r].lk[o].response.body))

\* the US call failed with a 500, the UK call returned a Japan Post quote
C2_Witness ==
  /\ req[1].pc = "responded"
  /\ req[1].lk["US"].how = "http_error"
  /\ req[1].lk["GB"].how = "ok"
  /\ req[1].json.US.rates = <<>>
  /\ Len(req[1].json.UK.rates) = 1
  /\ req[1].json.UK.errors =
       <<"ePacket Light: unsupported / fetch failed",
         "Small Packet (Air): unsupported / fetch failed">>

\* C3 as claimed: once a lookup has cached its result, a later lookup of the
\* same key that starts less than 60 s after that write returns the same
\* result without a call, and one that starts 60 s or more after it calls.
C3_Original ==
  \A r \in Reqs : \A q \in Reqs \ {r} : \A d \in Dest :
    LET first == req[r].lk[d]
        later == req[q].lk[d]
    IN (/\ first.how = "ok"
        /\ later.st # "none"
        /\ later.key = first.key
        /\ later.startedAt > first.wroteAt) =>
         IF later.startedAt - first.wroteAt < CACHE_TTL_MS
           THEN later.how = "hit" /\ ~later.called
                  /\ later.result = first.result
           ELSE later.called

\* C7 as claimed: a non-2xx status or an unparseable body (whatever the
\* status) gives no rates and the one error that names the destination, the
\* status and the reported or the generic message.
C7_Original ==
  \A r \in Reqs : \A d \in Dest :
    LET lookup == req[r].lk[d]
        response == lookup.response
    IN (/\ response.kind = "http"
        /\ ~(response.status \in 200..299) \/ response.body = Unparseable) =>
         /\ lookup.result.rates = <<>>
         /\ \E message \in {"boom", "unauthorized", "Ship&Co API call failed."} :
              lookup.result.errors =
                <<"Ship&Co API failed (" \o d \o "): "
                    \o Text(NumberToString(response.status)) \o " " \o message>>

\* C8 as claimed: an unparseable body, or one in which weight, width, height
\* or depth is missing or is not a finite number, is answered 400 with an
\* error field, and no lookup is started.
C8_Original ==
  \A r \in Reqs :
    (/\ req[r].pc # "idle"
     /\ \/ req[r].body = Unparseable
        \/ \E f \in NumberFields : Get(req[r].body, f).t # "number") =>
      /\ req[r].pc = "responded"
      /\ req[r].status = 400
      /\ Get(req[r].json, "error").t = "string"
      /\ \A d \in Dest : req[r].lk[d].st = "none"

\* C9: with no API token configured, a lookup that misses the cache makes no
\* outbound call and resolves with no rates and the configuration error of
\* its destination; the request is answered 200 and POST never throws.
C9_NoTokenNoCall ==
  apiKey \in {Undefined, Str("")} =>
    \A r \in Reqs :
      /\ req[r].pc # "threw"
      /\ (Finished(r) /\ PassesValidation(req[r].body)) => req[r].status = 200
      /\ \A d \in Dest :
           (req[r].lk[d].st # "none" /\ req[r].lk[d].how # "hit") =>
             /\ ~req[r].lk[d].called
             /\ req[r].lk[d].st = "resolved"
             /\ req[r].lk[d].result =
                  [rates |-> <<>>,
                   errors |-> <<"Ship&Co API failed (" \o d
                                  \o "): 500 SHIPANDCO_API_KEY is not set.">>]

\* the token is the empty string and the request has been answered 200
C9_Witness ==
  /\ apiKey = Str("")
  /\ req[1].pc = "responded"
  /\ req[1].status = 200
  /\ req[1].lk["US"].how = "nokey"
  /\ req[1].json.UK.rates = <<>>

\* the postal code the claim expects for a supplied value
ExpectedPostal(value, default) ==
  IF value.t \notin {"undefined", "null"} /\ trim(StringOf(value)) # <<>>
    THEN trim(StringOf(value))
    ELSE default

\* C10: a valid request starts a US and a GB lookup; each uses the supplied
\* postal code trimmed, or the default when it is absent or blank, in its
\* cache key and in its payload; the response maps US and UK to their results.
C10_TwoLookupsWithPostalDefaults ==
  \A r \in Reqs :
    (req[r].pc # "idle" /\ PassesValidation(req[r].body)) =>
      LET body == req[r].body
          dimOf(f) == Number(Get(body, f)).v
          postalOf(d) ==
            IF d = "US" THEN ExpectedPostal(Get(body, "usZip"), DEFAULT_US_ZIP)
            ELSE ExpectedPostal(Get(body, "ukPostcode"), DEFAULT_UK_POSTCODE)
      IN /\ \A d \in Dest :
              /\ req[r].lk[d].st # "none"
              /\ req[r].lk[d].key =
                   buildCacheKey(CountryChars(d), dimOf("weight"),
                                 dimOf("width"), dimOf("height"),
                                 dimOf("depth"), postalOf(d))
              /\ req[r].lk[d].how # "hit" =>
                   /\ req[r].lk[d].requestBody.country = d
                   /\ req[r].lk[d].requestBody.zip = postalOf(d)
         /\ req[r].pc = "responded" =>
              /\ req[r].json.US = req[r].lk["US"].result
              /\ req[r].json.UK = req[r].lk["GB"].result

\* a supplied US ZIP with spaces around it, a blank UK postcode
C10_Witness ==
  /\ req[1].pc = "responded"
  /\ req[1].status = 200
  /\ Get(req[1].body, "usZip") = Str(<<" ","a","1"," ">>)
  /\ Get(req[1].body, "ukPostcode") = Str(<<" ">>)
  /\ req[1].lk["US"].requestBody.zip = <<"a","1">>
  /\ req[1].lk["GB"].requestBody.zip = <<"S","W","1","A"," ","1","A","A">>

(***************************************************************************)
(* JavaScript numbers of the page (src/app/page.tsx).  A number is an IEEE  *)
(* 754 double; its arithmetic is exact arithmetic followed by rounding to   *)
(* 53 significant bits, ties to even.  Significands do not fit the          *)
(* integers of the model checker, so a natural number is a sequence of      *)
(* limbs in base 2^14, least significant first, with no leading zero limb.  *)
(* The exponent range is not modelled: the inputs below keep every result   *)
(* within the normal range.                                                 *)
(***************************************************************************)
LimbBits == 14
Base == 16384

RECURSIVE Pow2(_)
Pow2(n) == IF n = 0 THEN 1 ELSE 2 * Pow2(n - 1)

RECURSIVE FromNat(_)
FromNat(n) == IF n = 0 THEN <<>> ELSE <<n % Base>> \o FromNat(n \div Base)

RECURSIVE Strip(_)
Strip(m) ==
  IF m # <<>> /\ m[Len(m)] = 0 THEN Strip(SubSeq(m, 1, Len(m) - 1)) ELSE m

Limb(m, i) == IF i <= Len(m) THEN m[i] ELSE 0

RECURSIVE AddFrom(_, _, _, _)
AddFrom(a, b, i, carry) ==
  IF i > Len(a) /\ i > Len(b) THEN FromNat(carry)
  ELSE LET s == Limb(a, i) + Limb(b, i) + carry
       IN <<s % Base>> \o AddFrom(a, b, i + 1, s \div Base)

BigAdd(a, b) == AddFrom(a, b, 1, 0)

RECURSIVE SubFrom(_, _, _, _)
SubFrom(a, b, i, borrow) ==
  IF i > Len(a) THEN <<>>
  ELSE LET s == Limb(a, i) - Limb(b, i) - borrow
       IN <<IF s < 0 THEN s + Base ELSE s>>
            \o SubFrom(a, b, i + 1, IF s < 0 THEN 1 ELSE 0)

\* a - b for a >= b
BigSub(a, b) == Strip(SubFrom(a, b, 1, 0))

RECURSIVE CmpAt(_, _, _)
CmpAt(a, b, i) ==
  IF i = 0 THEN 0
  ELSE IF a[i] # b[i] THEN (IF a[i] < b[i] THEN -1 ELSE 1)
  ELSE CmpAt(a, b, i - 1)

\* -1, 0 or 1 as a < b, a = b or a > b
BigCmp(a, b) ==
  IF Len(a) # Len(b) THEN (IF Len(a) < Len(b) THEN -1 ELSE 1)
  ELSE CmpAt(a, b, Len(a))

\* a * k + carry for a limb k
RECURSIVE MulSmallFrom(_, _, _, _)
MulSmallFrom(a, k, i, carry) ==
  IF i > Len(a) THEN FromNat(carry)
  ELSE LET p == a[i] * k + carry
       IN <<p % Base>> \o MulSmallFrom(a, k, i + 1, p \div Base)

RECURSIVE MulFrom(_, _, _)
MulFrom(a, b, i) ==
  IF i > Len(b) THEN <<>>
  ELSE AddFrom(MulSmallFrom(a, b[i], 1, 0), <<0>> \o MulFrom(a, b, i + 1), 1, 0)

BigMul(a, b) == Strip(MulFrom(a, b, 1))

\* the quotient of a by k <= Base, from the most significant limb down
RECURSIVE DivSmallFrom(_, _, _, _)
DivSmallFrom(a, k, i, rem) ==
  IF i = 0 THEN <<>>
  ELSE LET cur == rem * Base + a[i]
       IN DivSmallFrom(a, k, i - 1, cur % k) \o <<cur \div k>>

ShiftLeft(m, k) ==
  IF m = <<>> THEN <<>>
  ELSE [i \in 1..(k \div LimbBits) |-> 0]
         \o MulSmallFrom(m, Pow2(k % LimbBits), 1, 0)

ShiftRight(m, k) ==
  LET whole == k \div LimbBits
      rest == IF whole >= Len(m) THEN <<>> ELSE SubSeq(m, whole + 1, Len(m))
  IN Strip(DivSmallFrom(rest, Pow2(k % LimbBits), Len(rest), 0))

\* m mod 2^k
LowBits(m, k) == BigSub(m, ShiftLeft(ShiftRight(m, k), k))

RECURSIVE SmallBitLen(_)
SmallBitLen(n) == IF n = 0 THEN 0 ELSE 1 + SmallBitLen(n \div 2)

BitLen(m) ==
  IF m = <<>> THEN 0 ELSE LimbBits * (Len(m) - 1) + SmallBitLen(m[Len(m)])

\* bit i of m, bit 1 being the least significant
Bit(m, i) ==
  (Limb(m, ((i - 1) \div LimbBits) + 1) \div Pow2((i - 1) % LimbBits)) % 2

\* long division of the bits hi..lo of n, rem being what the bits above hi
\* left over: the bits are halved so that the recursion stays shallow
RECURSIVE DivRange(_, _, _, _, _)
DivRange(n, d, hi, lo, rem) ==
  IF hi < lo THEN [q |-> <<>>, r |-> rem]
  ELSE IF hi = lo
    THEN LET r2 == MulSmallFrom(rem, 2, 1, Bit(n, hi))
         IN IF BigCmp(r2, d) >= 0 THEN [q |-> <<1>>, r |-> BigSub(r2, d)]
            ELSE [q |-> <<>>, r |-> r2]
  ELSE LET mid == (hi + lo) \div 2
           upper == DivRange(n, d, hi, mid + 1, rem)
       IN IF upper.q = <<>> THEN DivRange(n, d, mid, lo, upper.r)
          ELSE LET lower == DivRange(n, d, mid, lo, upper.r)
               IN [q |-> BigAdd(ShiftLeft(upper.q, mid - lo + 1), lower.q),
                   r |-> lower.r]

\* quotient and remainder of n by d > 0
BigDivMod(n, d) ==
  IF Len(d) = 1
    THEN LET q == Strip(DivSmallFrom(n, d[1], Len(n), 0))
         IN [q |-> q, r |-> BigSub(n, MulSmallFrom(q, d[1], 1, 0))]
    ELSE DivRange(n, d, BitLen(n), 1, <<>>)

\* a double: (-1 if s = -1) * m * 2^e, kept with m odd (or zero)
RECURSIVE Canon(_, _, _)
Canon(s, m, e) ==
  IF m = <<>> THEN [t |-> "double", s |-> 1, m |-> <<>>, e |-> 0]
  ELSE IF m[1] = 0 THEN Canon(s, Tail(m), e + LimbBits)
  ELSE IF m[1] % 2 = 0 THEN Canon(s, ShiftRight(m, 1), e + 1)
  ELSE [t |-> "double", s |-> s, m |-> m, e |-> e]

\* the double of a natural number below 2^31
Dbl(n) == Canon(1, FromNat(n), 0)

\* round m * 2^e (plus a positive amount below 2^e when sticky) to the
\* nearest double, ties to even
FRound(s, m, e, sticky) ==
  LET k == BitLen(m) - 53
  IN IF k <= 0 THEN Canon(s, m, e)
     ELSE LET q == ShiftRight(m, k)
              c == BigCmp(LowBits(m, k), ShiftLeft(<<1>>, k - 1))
              up == c > 0 \/ (c = 0 /\ (sticky \/ Bit(q, 1) = 1))
          IN Canon(s, IF up THEN BigAdd(q, <<1>>) ELSE q, e + k)

FNeg(x) == IF x.m = <<>> THEN x ELSE [x EXCEPT !.s = -x.s]

\* x + y before rounding
ExactAdd(x, y) ==
  LET e == IF x.e < y.e THEN x.e ELSE y.e
      a == ShiftLeft(x.m, x.e - e)
      b == ShiftLeft(y.m, y.e - e)
      c == BigCmp(a, b)
  IN IF x.s = y.s THEN [s |-> x.s, m |-> BigAdd(a, b), e |-> e]
     ELSE IF c >= 0 THEN [s |-> x.s, m |-> BigSub(a, b), e |-> e]
     ELSE [s |-> y.s, m |-> BigSub(b, a), e |-> e]

\* the sign of x - y: -1, 0 or 1
FCmp(x, y) ==
  LET d == ExactAdd(x, FNeg(y))
  IN IF d.m = <<>> THEN 0 ELSE d.s

\* x + y, x - y, x * y and x / y of JavaScript
FAdd(x, y) ==
  LET d == ExactAdd(x, y) IN FRound(d.s, d.m, d.e, FALSE)

FSub(x, y) == FAdd(x, FNeg(y))

FMul(x, y) == FRound(x.s * y.s, BigMul(x.m, y.m), x.e + y.e, FALSE)

\* the numerator is scaled to give a quotient of at least 55 bits
FDiv(x, y) ==
  IF x.m = <<>> THEN x
  ELSE LET need == 55 + BitLen(y.m) - BitLen(x.m)
           shift == IF need > 0 THEN need ELSE 0
           qr == BigDivMod(ShiftLeft(x.m, shift), y.m)
       IN FRound(x.s * y.s, qr.q, x.e - y.e - shift, qr.r # <<>>)

(***************************************************************************)
(* The price calculation of the page (src/app/page.tsx, lines 84-97 and    *)
(* 138-180).                                                               *)
(***************************************************************************)
MaxEdits == 2   \* edits of the form's number inputs in one run of the page

\* "利益率と手数料率の合計が100%を超えています。"
RatesExceedMessage ==
  "The profit rate and the fee rate add up to more than 100%."

defaultValues ==
  [costPrice |-> 0, shippingFee |-> 3000, feePercent |-> 21,
   targetProfitRate |-> 30, exchangeRate |-> 0, discountRate |-> 22,
   weight |-> 500, width |-> 20, height |-> 10, depth |-> 10,
   usZip |-> <<"1","0","0","0","1">>,
   ukPostcode |-> <<"S","W","1","A"," ","1","A","A">>]

\* the callback of useMemo, lines 139-171
Calculate(v) ==
  LET feeRate == FDiv(Dbl(v.feePercent), Dbl(100))
      profitRate == FDiv(Dbl(v.targetProfitRate), Dbl(100))
      discountRate == FDiv(Dbl(v.discountRate), Dbl(100))
      totalCost == FAdd(Dbl(v.costPrice), Dbl(v.shippingFee))
      divisor == FSub(FSub(Dbl(1), feeRate), profitRate)
  IN IF FCmp(divisor, Dbl(0)) <= 0
       THEN [profit |-> Null, sellPriceJPY |-> Null,
             discountedPriceUSD |-> Null, originalPriceUSD |-> Null,
             error |-> Str(RatesExceedMessage)]
     ELSE
       LET sellPriceJPY == FDiv(totalCost, divisor)
           profit == FMul(sellPriceJPY, profitRate)
           sellPriceUSD == IF v.exchangeRate # 0
                             THEN FDiv(sellPriceJPY, Dbl(v.exchangeRate))
                             ELSE Dbl(0)
           originalPriceUSD ==
             IF FCmp(discountRate, Dbl(1)) < 0
               THEN FDiv(sellPriceUSD, FSub(Dbl(1), discountRate))
               ELSE Dbl(0)
       IN [profit |-> profit, sellPriceJPY |-> sellPriceJPY,
           discountedPriceUSD |-> sellPriceUSD,
           originalPriceUSD |-> originalPriceUSD, error |-> Null]

\* the number inputs of the price form, lines 232-279
PriceKeys ==
  {"costPrice", "shippingFee", "feePercent", "targetProfitRate",
   "exchangeRate", "discountRate"}

\* what event.target.value may be: empty, not a number, or decimal digits
NumberTexts ==
  {<<>>, <<"e">>, <<"1">>, <<"3","0">>, <<"7","0">>, <<"7","9">>,
   <<"1","0","0">>}

\* the server and the pure-function inputs are not part of the page
ServerAbsent ==
  /\ rateCache = <<>>
  /\ now = 0
  /\ ticks = 0
  /\ apiKey = Str("tok")
  /\ req = <<>>
  /\ kIn = NoValue
  /\ kOut = NoValue
  /\ fIn = NoValue
  /\ fOut = NoValue

\* the first render of Home, lines 114-124 and 138-171
InitPrice ==
  /\ ServerAbsent
  /\ values = defaultValues
  /\ edits = 0
  /\ calc = Calculate(defaultValues)
  /\ shipping = NoValue
  /\ shippingError = Null
  /\ shippingLoading = FALSE
  /\ call = NoValue

\* onNumberChange(key), lines 173-180, and the render that follows it, in
\* which useMemo recomputes the prices from the new values
onNumberChange(key, text) ==
  /\ edits < MaxEdits
  /\ LET nextValue == Number(Str(text))
         next == [values EXCEPT
                    ![key] = IF isFinite(nextValue) THEN nextValue.v ELSE 0]
     IN /\ values' = next
        /\ calc' = Calculate(next)
  /\ edits' = edits + 1
  /\ UNCHANGED <<serverVars, kIn, kOut, fIn, fOut,
                 shipping, shippingError, shippingLoading, call>>

NextPrice == \E key \in PriceKeys, text \in NumberTexts : onNumberChange(key, text)

SpecPrice == InitPrice /\ [][NextPrice]_vars

(***************************************************************************)
(* C11.                                                                    *)
(***************************************************************************)
\* feePercent + targetProfitRate >= 100, in exact arithmetic
RatesReachHundred ==
  values.feePercent + values.targetProfitRate >= 100

\* C11 as claimed: the calculation reports the "rates exceed 100%" error and
\* no sell price, profit or USD price when feePercent + targetProfitRate >=
\* 100, and a sell price with no error when the sum is below 100.
C11_Original ==
  values # NoValue =>
    IF RatesReachHundred
      THEN /\ calc.error = Str(RatesExceedMessage)
           /\ calc.sellPriceJPY = Null
           /\ calc.profit = Null
           /\ calc.discountedPriceUSD = Null
           /\ calc.originalPriceUSD = Null
      ELSE /\ calc.error = Null
           /\ calc.sellPriceJPY # Null

(***************************************************************************)
(* fetchShippingRates of the page (src/app/page.tsx, lines 182-222).       *)
(***************************************************************************)
\* "送料取得に失敗しました。"
ShippingFallbackMessage == "Failed to get the shipping rates."

\* the message of the TypeError with which fetch rejects, by browser
NetworkErrorMessages == {"Failed to fetch", "Load failed"}

\* the message of the SyntaxError with which response.json() rejects
SyntaxErrorMessages ==
  {"Unexpected end of JSON input", "Unexpected token < in JSON"}

ShippingKeys == {"weight", "width", "height", "depth"}
PostalKeys == {"usZip", "ukPostcode"}
ShippingTexts == {<<"1">>}
PostalTexts == {<<"a","1">>}

\* what the inbound endpoint may answer to the page
RatesOfUS == [rates |-> <<>>, errors |-> <<"EMS: unsupported / fetch failed">>]
PageResponses ==
  {HttpResponse(200, Obj("US" :> RatesOfUS @@ "UK" :> RatesOfUS)),
   HttpResponse(200, Unparseable),
   HttpResponse(400, Obj(Prop("error", Str(BadNumbersMessage)))),
   HttpResponse(400, Obj(Prop("error", Str("")))),
   HttpResponse(500, Obj(NoProps)),
   HttpResponse(500, Null),
   HttpResponse(500, Unparseable)}

NoCall == [pc |-> "none", body |-> Undefined, response |-> NoResponse]

\* the first render of Home, before its effects run
InitFetch ==
  /\ ServerAbsent
  /\ values = defaultValues
  /\ edits = 0
  /\ calc = Calculate(defaultValues)
  /\ shipping = Obj(NoProps)
  /\ shippingError = Null
  /\ shippingLoading = FALSE
  /\ call = NoCall

\* onTextChange(key), lines 182-185, and the render that follows it
onTextChange(key, text) ==
  /\ edits < MaxEdits
  /\ values' = [values EXCEPT ![key] = text]
  /\ calc' = Calculate(values')
  /\ edits' = edits + 1
  /\ UNCHANGED <<serverVars, kIn, kOut, fIn, fOut,
                 shipping, shippingError, shippingLoading, call>>

\* fetchShippingRates up to the await of fetch, lines 187-202; it is started
\* by the effect of lines 219-222 and by the button of line 351, which is
\* disabled while shippingLoading
fetchShippingRates ==
  /\ ~shippingLoading
  /\ shippingLoading' = TRUE
  /\ shippingError' = Null
  /\ call' = [pc |-> "fetch",
              body |-> Body(Num(values.weight), Num(values.width),
                            Num(values.height), Num(values.depth),
                            Str(values.usZip), Str(values.ukPostcode)),
              response |-> NoResponse]
  /\ UNCHANGED <<serverVars, kIn, kOut, fIn, fOut, values, edits, calc,
                 shipping>>

\* fetch resolves, line 191: the function goes on to await response.json()
ResponseArrives(response) ==
  /\ call.pc = "fetch"
  /\ call' = [call EXCEPT !.pc = "json", !.response = response]
  /\ UNCHANGED <<serverVars, kIn, kOut, fIn, fOut, values, edits, calc,
                 shipping, shippingError, shippingLoading>>

\* a bug: a non-2xx answer is taken for a success
ThrownByIgnoringStatus(response) ==
  IF response.kind = "network_error"
    THEN {Str(m) : m \in NetworkErrorMessages}
  ELSE IF response.body = Unparseable
    THEN {Str(m) : m \in SyntaxErrorMessages}
  ELSE {Null}

\* lines 191-207: the messages of the Error the try block may throw for an
\* outcome of the request, Null standing for no throw
ThrownBy(response) ==
  IF response.kind = "network_error"
    THEN {Str(m) : m \in NetworkErrorMessages}
  ELSE IF response.body = Unparseable
    THEN {Str(m) : m \in SyntaxErrorMessages}
  ELSE IF ~ResponseOk(response.status)
    THEN {Str(StringText(Nullish(Get(response.body, "error"),
                                 Str(ShippingFallbackMessage))))}
  ELSE {Null}

\* the rest of the function once the awaited promise has settled, lines
\* 204-216: setShipping(data), or the catch block, and the finally block
Settle(response, thrown) ==
  /\ IF thrown = Null
       THEN /\ shipping' = response.body
            /\ UNCHANGED shippingError
       ELSE /\ shippingError' = thrown
            /\ UNCHANGED shipping
  /\ shippingLoading' = FALSE
  /\ call' = [call EXCEPT !.pc = "done", !.response = response]
  /\ UNCHANGED <<serverVars, kIn, kOut, fIn, fOut, values, edits, calc>>

\* fetch rejects, line 191
RequestRejects ==
  /\ call.pc = "fetch"
  /\ \E thrown \in ThrownBy([kind |-> "network_error"]) :
       Settle([kind |-> "network_error"], thrown)

\* response.json() settles, line 204
BodyRead ==
  /\ call.pc = "json"
  /\ \E thrown \in ThrownBy(call.response) : Settle(call.response, thrown)

NextFetch ==
  \/ fetchShippingRates
  \/ \E response \in PageResponses : ResponseArrives(response)
  \/ RequestRejects
  \/ BodyRead
  \/ \E key \in ShippingKeys, text \in ShippingTexts : onNumberChange(key, text)
  \/ \E key \in PostalKeys, text \in PostalTexts : onTextChange(key, text)

\* the request is answered or rejects, and reading the body settles
SpecFetch ==
  /\ InitFetch
  /\ [][NextFetch]_vars
  /\ WF_vars(RequestRejects \/ \E response \in PageResponses :
                                  ResponseArrives(response))
  /\ WF_vars(BodyRead)

(***************************************************************************)
(* C12.                                                                    *)
(***************************************************************************)
InFlight == call.pc \in {"fetch", "json"}

\* the endpoint answered 2xx with a body that parses
Succeeded(response) ==
  /\ response.kind = "http"
  /\ response.status \in 200..299
  /\ response.body # Unparseable

\* the error field of the answer, else the generic fallback
ErrorFieldOrFallback(response) ==
  LET body == IF response.kind = "http" THEN response.body ELSE Undefined
  IN IF /\ body.t = "object"
        /\ "error" \in DOMAIN body.v
        /\ body.v["error"].t \notin {"null", "undefined"}
       THEN Str(StringText(body.v["error"]))
       ELSE Str(ShippingFallbackMessage)

\* C12 as claimed, for a finished invocation: the loading flag is reset; after
\* a success the error is null; after every failure the error is the
\* server's error field, else the generic fallback.
C12_Original ==
  call # NoValue /\ call.pc = "done" =>
    /\ ~shippingLoading
    /\ IF Succeeded(call.response)
         THEN shippingError = Null
         ELSE shippingError = ErrorFieldOrFallback(call.response)

\* what the amended claim says of a finished invocation
FinishedAsAmended ==
  call # NoValue /\ call.pc = "done" =>
    /\ ~shippingLoading
    /\ IF Succeeded(call.response)
         THEN shippingError = Null /\ shipping = call.response.body
       ELSE IF call.response.kind = "network_error"
         THEN \E m \in NetworkErrorMessages : shippingError = Str(m)
       ELSE IF call.response.body = Unparseable
         THEN \E m \in SyntaxErrorMessages : shippingError = Str(m)
       ELSE shippingError = ErrorFieldOrFallback(call.response)

\* C12 (amended): every invocation of fetchShippingRates eventually finishes
\* with the loading flag reset; after a 2xx answer that parses the error is
\* null; after a non-2xx answer that parses the error is the server's error
\* field, else the generic fallback; after a rejected request or an
\* unparseable body the error is the message of the exception.
C12_AlwaysSettlesWithMessage ==
  /\ []FinishedAsAmended
  /\ InFlight ~> (call.pc = "done" /\ ~shippingLoading)

\* the endpoint answered 500 with a body that is not JSON
C12_Witness ==
  /\ call # NoValue
  /\ call.pc = "done"
  /\ call.response = HttpResponse(500, Unparseable)
  /\ shippingError = Str("Unexpected end of JSON input")
  /\ ~shippingLoading

(***************************************************************************)
(* Claims about the cache of the server.                                   *)
(***************************************************************************)
\* the keys whose entry a step writes
Written ==
  {k \in DOMAIN rateCache' :
     k \notin DOMAIN rateCache \/ rateCache'[k] # rateCache[k]}

\* C13 as claimed: an entry written to the cache expires 60 seconds after
\* the moment of the write, so it is not already expired when written.
C13_Original ==
  [][\A k \in Written :
       /\ rateCache'[k].expiresAt = now' + CACHE_TTL_MS
       /\ rateCache'[k].expiresAt > now']_vars

\* C14 as claimed: of two lookups with the same key that start within one
\* 60-second window and whose API call succeeds, at most one makes an
\* outbound call, also when they belong to requests in flight together.
C14_Original ==
  \A r \in Reqs : \A q \in Reqs \ {r} : \A d \in Dest :
    LET a == req[r].lk[d]
        b == req[q].lk[d]
    IN ~(/\ a.how = "ok" /\ a.called
         /\ b.how = "ok" /\ b.called
         /\ a.key = b.key
         /\ a.startedAt - b.startedAt < CACHE_TTL_MS
         /\ b.startedAt - a.startedAt < CACHE_TTL_MS)

\* C15 as claimed: a request is finished only when both of its lookups have
\* completed; one lookup's failure never ends it while the other is pending.
C15_Original ==
  \A r \in Reqs :
    Finished(r) => \A d \in Dest : req[r].lk[d].st # "fetching"

PairDims ==
  {<<1, 1, 1, 1>>, <<2, 1, 1, 1>>, <<1, 2, 1, 1>>, <<1, 1, 2, 1>>,
   <<1, 1, 1, 2>>, <<11, 1, 1, 1>>, <<1, 11, 1, 1>>, <<1, 1, 1, 11>>}

\* postal codes that look like further fields of the key
PairPostals == StringsUpTo({"1", ":"}, MaxPostalLen)

KeyInputs == [destination : Countries, dims : PairDims, postal : PairPostals]

InitKeyPair ==
  /\ ServerIdle
  /\ kIn \in [a : KeyInputs, b : KeyInputs]
  /\ kOut = NoValue
  /\ fIn = NoValue
  /\ fOut = NoValue

KeyOf(in) ==
  buildCacheKey(in.destination, in.dims[1], in.dims[2], in.dims[3],
                in.dims[4], in.postal)

BuildKeyPair ==
  /\ kIn # NoValue
  /\ kOut = NoValue
  /\ kOut' = [a |-> KeyOf(kIn.a), b |-> KeyOf(kIn.b)]
  /\ UNCHANGED <<serverVars, kIn, fIn, fOut, uiVars>>

NextKeyPair == BuildKeyPair

SpecKeyPair == InitKeyPair /\ [][NextKeyPair]_vars

(***************************************************************************)
(* C17.                                                                    *)
(***************************************************************************)
\* C17: two lookups that differ in destination or in any of weight, width,
\* height, depth get different keys whatever their postal codes; so the US
\* and the GB lookup of one request (same dimensions) never share a cache
\* entry, the cache being read and written by key alone.
C17_KeySensitive ==
  kOut # NoValue =>
    ((\/ kIn.a.destination # kIn.b.destination
      \/ \E i \in 1..4 : kIn.a.dims[i] # kIn.b.dims[i]) => kOut.a # kOut.b)

\* the US and the GB lookup of one request, with the same dimensions and the
\* same postal code
C17_Witness ==
  /\ kOut # NoValue
  /\ kOut.a # kOut.b
  /\ kIn.a.destination = US
  /\ kIn.b.destination = GB
  /\ kIn.a.dims = kIn.b.dims
  /\ kIn.a.postal = kIn.b.postal

(***************************************************************************)
(* The prune before the read.                                              *)
(***************************************************************************)
\* the step in which request r starts its two lookups
StartsLookups(r) == req[r].pc = "idle" /\ req'[r].pc = "pending"

\* C18: the step that starts the lookups of a request at time now leaves
\* no entry with expiresAt <= now in the cache, leaves every entry with
\* expiresAt > now as it was and adds none; a lookup served from the cache
\* returns the value of an entry with expiresAt > now; and an entry leaves
\* the cache only in such a step, and only when its expiresAt <= now.
C18_PruneBeforeRead ==
  [][/\ \A r \in Reqs :
          StartsLookups(r) =>
            /\ DOMAIN rateCache' \subseteq DOMAIN rateCache
            /\ \A k \in DOMAIN rateCache' : rateCache'[k].expiresAt > now
            /\ \A k \in DOMAIN rateCache :
                 rateCache[k].expiresAt > now =>
                   k \in DOMAIN rateCache' /\ rateCache'[k] = rateCache[k]
            /\ \A d \in Dest :
                 /\ req'[r].lk[d].startedAt = now
                 /\ req'[r].lk[d].how = "hit" =>
                      /\ req'[r].lk[d].key \in DOMAIN rateCache
                      /\ rateCache[req'[r].lk[d].key].expiresAt > now
                      /\ req'[r].lk[d].result
                           = rateCache[req'[r].lk[d].key].value
     /\ \A k \in DOMAIN rateCache \ DOMAIN rateCache' :
          /\ rateCache[k].expiresAt <= now
          /\ \E r \in Reqs : StartsLookups(r)
     /\ \A r \in Reqs, d \in Dest :
          req[r].lk[d].st = "none" /\ req'[r].lk[d].st # "none"
            => StartsLookups(r)]_vars

\* the first request cached a result at time 0, and the second request,
\* started when that entry expired, found the entry gone and calls the API
C18_Witness ==
  \E d \in Dest :
    /\ req[1].lk[d].how = "ok"
    /\ req[1].lk[d].startedAt = 0
    /\ req[2].lk[d].key = req[1].lk[d].key
    /\ req[2].lk[d].startedAt = CACHE_TTL_MS
    /\ req[2].lk[d].st = "fetching"
    /\ req[1].lk[d].key \notin DOMAIN rateCache

(***************************************************************************)
(* The order of the error list.                                            *)
(***************************************************************************)
\* the text an error entry contributes: its message when that is a string
\* with at least one character, its JSON text otherwise
MessageOfEntry(entry) ==
  LET message == Get(entry, "message")
  IN IF message.t = "string" /\ Len(message.v) > 0
       THEN message.v
       ELSE JSONstringify(entry)

\* the messages of the error entries of the raw quotes, quote by quote
RECURSIVE MessagesOfQuotes(_)
MessagesOfQuotes(raw) ==
  IF raw = <<>> THEN <<>>
  ELSE LET errors == Get(Head(raw), "errors")
       IN (IF errors.t = "array"
             THEN [i \in 1..Len(errors.v) |-> MessageOfEntry(errors.v[i])]
             ELSE <<>>)
          \o MessagesOfQuotes(Tail(raw))

SynthesizedMessages == {SynthesizedFor(code) : code \in RequiredServices}

\* C19: the error list of the result starts with the messages of the error
\* entries of every raw quote that carries an error list, allow-listed or
\* not, in the order of the quotes and of their entries; all that follows
\* are synthesized gap-fill messages, and none of these stands before an
\* API-reported message.
C19_ApiErrorsThenGapFill ==
  fOut # NoValue =>
    LET reported == MessagesOfQuotes(RawRates(fIn))
        n == Len(reported)
    IN /\ Len(fOut.errors) >= n
       /\ SubSeq(fOut.errors, 1, n) = reported
       /\ \A i \in 1..n : fOut.errors[i] \notin SynthesizedMessages
       /\ \A i \in (n + 1)..Len(fOut.errors) :
            fOut.errors[i] \in SynthesizedMessages

\* a UPS quote, which the allow-list drops, and a DHL quote, each with two
\* error entries: four API messages, then the three gap-fill messages
C19_Witness ==
  /\ fOut # NoValue
  /\ fIn.t = "array"
  /\ Len(fIn.v) = 2
  /\ CarrierText(fIn.v[1]) = <<"U","P","S">>
  /\ CarrierText(fIn.v[2]) = <<"D","H","L">>
  /\ Len(fOut.rates) = 1
  /\ fOut.errors = <<"m1", "{\"code\":\"E2\"}", "m3", "{\"message\":\"\"}",
                     "EMS: unsupported / fetch failed",
                     "ePacket Light: unsupported / fetch failed",
                     "Small Packet (Air): unsupported / fetch failed">>

(***************************************************************************)
(* A failed lookup and the cache.                                          *)
(***************************************************************************)
\* the results of a lookup whose outbound call failed
FailureResults ==
  {FailureResult(d, 500, Str(KeyMissingMessage)) : d \in Dest}
  \cup {HttpFailureResult(d, a) :
          d \in Dest, a \in {x \in ServerResponses : ~ResponseOk(x.status)}}

\* the cache without the entries that have expired at time t
Unexpired(cache, t) ==
  [k \in {x \in DOMAIN cache : cache[x].expiresAt > t} |-> cache[k]]

\* C20: the step in which a lookup's call fails with a non-2xx status leaves
\* the cache as it was; the step that starts a lookup which fails for want
\* of a token only removes the expired entries; no cached value is the
\* result of a failure, and a lookup that finds no unexpired entry under its
\* key is not served from the cache but makes a new attempt.
C20_FailureWritesNothing ==
  [][/\ \A r \in Reqs, d \in Dest :
          /\ req[r].lk[d].st = "fetching" /\ req'[r].lk[d].how = "http_error"
               => rateCache' = rateCache
          /\ StartsLookups(r) /\ req'[r].lk[d].how = "nokey"
               => rateCache' = Unexpired(rateCache, now)
          /\ StartsLookups(r)
               /\ ~(/\ req'[r].lk[d].key \in DOMAIN rateCache
                    /\ rateCache[req'[r].lk[d].key].expiresAt > now)
               => /\ req'[r].lk[d].how \in {"pending", "nokey"}
                  /\ req'[r].lk[d].how = "pending" => req'[r].lk[d].called
          /\ StartsLookups(r) /\ req'[r].lk[d].how = "hit"
               => req'[r].lk[d].result \notin FailureResults
     /\ \A k \in DOMAIN rateCache' :
          rateCache'[k].value \notin FailureResults]_vars

\* the US call of the first request was answered 500 and nothing is cached
\* under its key; the second request, started later with the same key,
\* calls the API again
C20_Witness ==
  /\ req[1].pc = "responded"
  /\ req[1].lk["US"].how = "http_error"
  /\ req[1].lk["US"].result \in FailureResults
  /\ req[2].lk["US"].key = req[1].lk["US"].key
  /\ req[2].lk["US"].startedAt > req[1].lk["US"].startedAt
  /\ req[2].lk["US"].st = "fetching"
  /\ req[2].lk["US"].called
  /\ req[1].lk["US"].key \notin DOMAIN rateCache

(***************************************************************************)
(* Two successful lookups of one key in flight together.                   *)
(***************************************************************************)
\* C21 as claimed: a write to the cache never replaces the entry of a key
\* with an entry that expires earlier.
C21_Original ==
  [][\A k \in DOMAIN rateCache \cap DOMAIN rateCache' :
       rateCache'[k].expiresAt >= rateCache[k].expiresAt]_vars

=============================================================================
